---- MODULE Spec2Model ----
(***************************************************************************)
(* A model of package intset (src/intset.go): IntSet, a set of small       *)
(* non-negative ints packed into a growable sequence of machine words.     *)
(*                                                                         *)
(* Representation choices                                                  *)
(*  - The model is the 32-bit build: ^uint(0)>>63 = 0, so intSize =        *)
(*    wordSize = 32, lg2WordSize = 5 and MaxInt = 2^31 - 1.                *)
(*  - A word (Go uint) is the set of the positions of its 1 bits, a subset *)
(*    of 0..wordSize-1: | is \cup, & is \cap, &^ is \, ^ is the symmetric  *)
(*    difference, and w == 0 is w = {}.                                    *)
(*  - s.words is a sequence of words; Go's words[i] is ws[i+1].            *)
(*  - A slice is a reference: ref[id] names the backing array of the       *)
(*    instance's words (Nil for a nil slice), store[a] holds the array.    *)
(***************************************************************************)
EXTENDS Integers, Sequences, FiniteSets, TLC

(***************************************************************************)
(* Program constants, src/intset.go:19-29 (32-bit build).                  *)
(***************************************************************************)
intSize == 32
MaxInt == 2147483647
MinInt == -MaxInt - 1
wordSize == 32
lg2WordSize == 5
bitmask == (2 ^ lg2WordSize) - 1

(***************************************************************************)
(* Bounds of the model.                                                    *)
(***************************************************************************)
\* the largest number of words a set of the model is grown to
MaxWords == 2

\* the longest sequence of calls that is recorded in log
MaxLog == 5

\* the values handed to Add, Remove and AddAll: the lowest and the highest
\* bit of word 0, and one bit of each further word
Vals == {0, wordSize - 1} \cup {wordSize * i + i : i \in 1 .. MaxWords - 1}
\* the values handed to the queries Has and LowerBound: the bits of Vals and
\* the bits around them, in every word and in the word after the last one
Queries ==
  {wordSize * i + b : i \in 0 .. MaxWords, b \in (0 .. MaxWords) \cup {wordSize - 1}}

(***************************************************************************)
(* Bit primitives (math/bits), on a word as a set of bit positions.        *)
(***************************************************************************)
\* bits.OnesCount
popcount(w) == Cardinality(w)

\* bits.Len(x) - 1 for bits.TrailingZeros(x): the highest 1 bit
ntzHigh(x) == IF x = {} THEN wordSize ELSE CHOOSE b \in x : \A c \in x : c <= b

\* bits.TrailingZeros: the position of the lowest 1 bit, wordSize for 0
ntz(x) == IF x = {} THEN wordSize ELSE CHOOSE b \in x : \A c \in x : b <= c

\* bits.LeadingZeros: the number of 0 bits above the highest 1 bit
nlz(x) ==
  IF x = {} THEN wordSize
  ELSE wordSize - 1 - (CHOOSE b \in x : \A c \in x : c <= b)

\* 1 << uint(j): the word with the single bit j
Bit(j) == {j}

\* wordMask: x >> lg2WordSize and 1 << uint(x & bitmask)
wordMask(x) == [w |-> x \div (2 ^ lg2WordSize), mask |-> Bit(x % (bitmask + 1))]

\* wordBit: x >> lg2WordSize and uint(x & bitmask)
wordBit(x) == [w |-> x \div (2 ^ lg2WordSize), bit |-> x % (bitmask + 1)]

(***************************************************************************)
(* The methods of IntSet as functions of the word sequence ws = s.words.   *)
(***************************************************************************)
Has(ws, x) ==
  LET wm == wordMask(x)
  IN  wm.w < Len(ws) /\ (ws[wm.w + 1] \cap wm.mask) # {}

\* the loop "for len(s.words) <= w { append(s.words, 0) }"
Grow(ws, w) ==
  [i \in 1 .. (IF Len(ws) <= w THEN w + 1 ELSE Len(ws)) |->
      IF i <= Len(ws) THEN ws[i] ELSE {}]

\* Add: the new words and the result
Add(ws, x) ==
  LET wm == wordMask(x)
  IN  IF wm.w < Len(ws) /\ (ws[wm.w + 1] \cap wm.mask) # {}
      THEN [words |-> ws, ok |-> FALSE]
      ELSE [words |-> [Grow(ws, wm.w) EXCEPT ![wm.w + 1] = @ \cup wm.mask],
            ok |-> TRUE]

RECURSIVE AddAll(_, _)
\* AddAll: Add for each element of xs, in order
AddAll(ws, xs) ==
  IF xs = <<>> THEN ws ELSE AddAll(Add(ws, Head(xs)).words, Tail(xs))

\* Remove with "s.words[w] = 0" for "s.words[w] &^= mask"
RemoveWord(ws, x) ==
  LET wm == wordMask(x)
  IN  IF wm.w >= Len(ws) \/ (ws[wm.w + 1] \cap wm.mask) = {}
      THEN [words |-> ws, ok |-> FALSE]
      ELSE [words |-> [ws EXCEPT ![wm.w + 1] = {}], ok |-> TRUE]

Remove(ws, x) ==
  LET wm == wordMask(x)
  IN  IF wm.w >= Len(ws) \/ (ws[wm.w + 1] \cap wm.mask) = {}
      THEN [words |-> ws, ok |-> FALSE]
      ELSE [words |-> [ws EXCEPT ![wm.w + 1] = @ \ wm.mask], ok |-> TRUE]

RECURSIVE LenFromWords(_, _)
\* Len with "n++" for "n += popcount(w)"
LenFromWords(ws, i) ==
  IF i > Len(ws) THEN 0
  ELSE (IF ws[i] = {} THEN 0 ELSE 1) + LenFromWords(ws, i + 1)

RECURSIVE LenFrom(_, _)
LenFrom(ws, i) ==
  IF i > Len(ws) THEN 0
  ELSE (IF ws[i] = {} THEN 0 ELSE popcount(ws[i])) + LenFrom(ws, i + 1)

\* Len: the sum of the population counts of the non-zero words
IntSetLen(ws) == LenFrom(ws, 1)

RECURSIVE IsEmptyFrom(_, _)
IsEmptyFrom(ws, i) ==
  IF i > Len(ws) THEN TRUE
  ELSE IF ws[i] # {} THEN FALSE
  ELSE IsEmptyFrom(ws, i + 1)

\* IsEmpty as len(s.words) == 0
IsEmptyNoWords(ws) == Len(ws) = 0

IsEmpty(ws) == IsEmptyFrom(ws, 1)

RECURSIVE wordElemsDown(_, _, _)
\* the inner loop of forEach testing bit wordSize-1-j for bit j
wordElemsDown(w, i, j) ==
  IF j >= wordSize THEN <<>>
  ELSE (IF (w \cap Bit(wordSize - 1 - j)) # {}
        THEN <<wordSize * i + (wordSize - 1 - j)>> ELSE <<>>)
       \o wordElemsDown(w, i, j + 1)

RECURSIVE wordElems(_, _, _)
\* the inner loop of forEach on word i (0-based), from bit j on
wordElems(w, i, j) ==
  IF j >= wordSize THEN <<>>
  ELSE (IF (w \cap Bit(j)) # {} THEN <<wordSize * i + j>> ELSE <<>>)
       \o wordElems(w, i, j + 1)

RECURSIVE forEachFrom(_, _)
forEachFrom(ws, i) ==
  IF i > Len(ws) THEN <<>>
  ELSE (IF ws[i] = {} THEN <<>> ELSE wordElems(ws[i], i - 1, 0))
       \o forEachFrom(ws, i + 1)

\* forEach: the sequence of the arguments f is called with, in call order
forEach(ws) == forEachFrom(ws, 1)

\* AppendTo: total = len(slice) + s.Len() slots, the first len(slice) of
\* them the slice, the others filled by forEach in call order
AppendTo(ws, slice) ==
  LET total == Len(slice) + IntSetLen(ws)
      calls == forEach(ws)
  IN  [k \in 1 .. total |->
         IF k <= Len(slice) THEN slice[k] ELSE calls[k - Len(slice)]]

Elems(ws) == AppendTo(ws, <<>>)

\* TakeMin with "*p = 0; return false" at its end
TakeMinFromReset(ws, i, p) ==
  LET first == {k \in i .. Len(ws) : ws[k] # {}}
  IN  IF first = {} THEN [words |-> ws, p |-> 0, ok |-> FALSE]
      ELSE LET k == CHOOSE a \in first : \A b \in first : a <= b
               tz == ntz(ws[k])
           IN  [words |-> [ws EXCEPT ![k] = @ \ Bit(tz)],
                p |-> wordSize * (k - 1) + tz,
                ok |-> TRUE]

RECURSIVE TakeMinFrom(_, _, _)
TakeMinFrom(ws, i, p) ==
  IF i > Len(ws) THEN [words |-> ws, p |-> p, ok |-> FALSE]
  ELSE IF ws[i] = {} THEN TakeMinFrom(ws, i + 1, p)
  ELSE LET tz == ntz(ws[i])
       IN  [words |-> [ws EXCEPT ![i] = @ \ Bit(tz)],
            p |-> wordSize * (i - 1) + tz,
            ok |-> TRUE]

\* TakeMin that drops the zero words it leaves at the end
TakeMinTrim(ws, p) ==
  LET r == TakeMinFrom(ws, 1, p)
      n == IF \A i \in 1 .. Len(r.words) : r.words[i] = {} THEN 0
           ELSE CHOOSE i \in 1 .. Len(r.words) :
                  /\ r.words[i] # {}
                  /\ \A j \in i + 1 .. Len(r.words) : r.words[j] = {}
  IN  [words |-> SubSeq(r.words, 1, n), p |-> r.p, ok |-> r.ok]

\* TakeMin: the new words, the new value of *p and the result
TakeMin(ws, p) == TakeMinFrom(ws, 1, p)

RECURSIVE MinFrom(_, _)
MinFrom(ws, i) ==
  IF i > Len(ws) THEN MaxInt
  ELSE IF ws[i] = {} THEN MinFrom(ws, i + 1)
  ELSE wordSize * (i - 1) + ntz(ws[i])

Min(ws) == MinFrom(ws, 1)

\* Max with "break" for "continue" at a zero word
MaxFromBreak(ws, i) ==
  IF ~(i > -1) THEN MinInt
  ELSE IF ws[i + 1] = {} THEN MinInt
  ELSE wordSize * (i + 1) - nlz(ws[i + 1]) - 1

RECURSIVE MaxFrom(_, _)
\* the loop of Max at the Go index i, counting down to 0
MaxFrom(ws, i) ==
  IF ~(i > -1) THEN MinInt
  ELSE IF ws[i + 1] = {} THEN MaxFrom(ws, i - 1)
  ELSE wordSize * (i + 1) - nlz(ws[i + 1]) - 1

Max(ws) == MaxFrom(ws, Len(ws) - 1)

RECURSIVE bitScan(_, _, _)
\* the loop "for j := bit; j < wordSize; j++" of LowerBound on word i
\* (0-based): the element found, or -1 when the loop ends without a return
bitScan(word, i, j) ==
  IF j >= wordSize THEN -1
  ELSE IF (word \cap Bit(j)) # {} THEN wordSize * i + j
  ELSE bitScan(word, i, j + 1)

\* LowerBound without the scan of the bits from bit on in x's own word
LowerBoundFromSkip(ws, i, w, bit) ==
  LET later == {k \in i .. Len(ws) :
                  /\ k - 1 >= w /\ ws[k] # {}
                  /\ (k - 1 = w => ntz(ws[k]) >= bit)}
  IN  IF later = {} THEN MaxInt
      ELSE LET k == CHOOSE a \in later : \A b \in later : a <= b
           IN  wordSize * (k - 1) + ntz(ws[k])

RECURSIVE LowerBoundFrom(_, _, _, _)
LowerBoundFrom(ws, i, w, bit) ==
  IF i > Len(ws) THEN MaxInt
  ELSE IF i - 1 < w THEN LowerBoundFrom(ws, i + 1, w, bit)
  ELSE IF ws[i] = {} THEN LowerBoundFrom(ws, i + 1, w, bit)
  ELSE LET tz == ntz(ws[i])
       IN  IF i - 1 > w THEN wordSize * (i - 1) + tz
           ELSE IF tz >= bit THEN wordSize * (i - 1) + tz
           ELSE LET r == bitScan(ws[i], i - 1, bit)
                IN  IF r # -1 THEN r
                    ELSE LowerBoundFrom(ws, i + 1, w, bit)

LowerBound(ws, x) ==
  LET wb == wordBit(x) IN LowerBoundFrom(ws, 1, wb.w, wb.bit)

\* Clear: s.words = nil
Clear(ws) == <<>>

\* Copy: make([]uint, len(s.words)) is all zero, copy fills in the
\* min(len(sc.words), len(s.words)) first words
Copy(ws) == [i \in 1 .. Len(ws) |-> ws[i]]

\* the decimal digits of fmt's %d
Digits == <<"0", "1", "2", "3", "4", "5", "6", "7", "8", "9">>

RECURSIVE Itoa(_)
\* fmt.Fprintf(&b, "%d", x) for x >= 0, as a sequence of characters
Itoa(n) ==
  IF n < 10 THEN <<Digits[n + 1]>>
  ELSE Itoa(n \div 10) \o <<Digits[(n % 10) + 1]>>

RECURSIVE StringFrom(_, _)
\* the callback of String on the calls of forEach: b is the builder
StringFrom(b, calls) ==
  IF calls = <<>> THEN b
  ELSE StringFrom((IF Len(b) > Len(<<"{">>) THEN b \o <<" ">> ELSE b)
                    \o Itoa(Head(calls)),
                  Tail(calls))

\* String: the characters written to the builder
String(ws) == StringFrom(<<"{">>, forEach(ws)) \o <<"}">>

\* the callback of BitString writing b[int(x)] = '1'
RECURSIVE BitStringFromLsb(_, _, _)
BitStringFromLsb(b, radix, calls) ==
  IF calls = <<>> THEN b
  ELSE BitStringFromLsb([b EXCEPT ![Head(calls) + 1] = "1"],
                        radix, Tail(calls))

RECURSIVE BitStringFrom(_, _, _)
\* the callback of BitString: b[radix-int(x)-1] = '1' for each call
BitStringFrom(b, radix, calls) ==
  IF calls = <<>> THEN b
  ELSE BitStringFrom([b EXCEPT ![radix - Head(calls) - 1 + 1] = "1"],
                     radix, Tail(calls))

BitString(ws) ==
  IF IsEmpty(ws) THEN <<"0">>
  ELSE LET n == Max(ws) + 1
       IN  BitStringFrom([i \in 1 .. n |-> "0"], n, forEach(ws))

RECURSIVE EqualsFrom(_, _, _)
EqualsFrom(sw, tw, i) ==
  IF i > Len(sw) THEN TRUE
  ELSE IF sw[i] = {} THEN EqualsFrom(sw, tw, i + 1)
  ELSE IF i - 1 >= Len(tw) THEN FALSE
  ELSE IF sw[i] # tw[i] THEN FALSE
  ELSE EqualsFrom(sw, tw, i + 1)

\* Equals that compares the word counts in place of the element counts
EqualsWordCount(sw, tw, same) ==
  IF same THEN TRUE
  ELSE IF Len(sw) # Len(tw) THEN FALSE
  ELSE EqualsFrom(sw, tw, 1)

\* Equals; same is the pointer comparison s == t
Equals(sw, tw, same) ==
  IF same THEN TRUE
  ELSE IF IntSetLen(sw) # IntSetLen(tw) THEN FALSE
  ELSE EqualsFrom(sw, tw, 1)

\* UnionWith without the append of the words t has beyond s
UnionWithNoGrow(sw, tw) ==
  [i \in 1 .. Len(sw) |-> IF i <= Len(tw) THEN sw[i] \cup tw[i] ELSE sw[i]]

\* UnionWith: each iteration i reads t.words[i] and touches s.words[i] only
UnionWith(sw, tw) ==
  [i \in 1 .. (IF Len(tw) > Len(sw) THEN Len(tw) ELSE Len(sw)) |->
     IF i > Len(tw) THEN sw[i]
     ELSE IF i - 1 < Len(sw) THEN sw[i] \cup tw[i]
     ELSE tw[i]]

\* IntersectWith that leaves the words s has beyond t as they are
IntersectWithKeepTail(sw, tw) ==
  [i \in 1 .. Len(sw) |->
     IF i - 1 < Len(tw) THEN sw[i] \cap tw[i] ELSE sw[i]]

IntersectWith(sw, tw) ==
  [i \in 1 .. Len(sw) |->
     IF i - 1 < Len(tw) THEN sw[i] \cap tw[i] ELSE {}]

\* the word loop of Intersects that stops at the first zero word of t
RECURSIVE IntersectsFromBreak(_, _, _)
IntersectsFromBreak(sw, tw, i) ==
  IF i > Len(tw) THEN FALSE
  ELSE IF tw[i] = {} THEN FALSE
  ELSE IF i - 1 >= Len(sw) THEN FALSE
  ELSE IF (sw[i] \cap tw[i]) # {} THEN TRUE
  ELSE IntersectsFromBreak(sw, tw, i + 1)

RECURSIVE IntersectsFrom(_, _, _)
IntersectsFrom(sw, tw, i) ==
  IF i > Len(tw) THEN FALSE
  ELSE IF tw[i] = {} THEN IntersectsFrom(sw, tw, i + 1)
  ELSE IF i - 1 >= Len(sw) THEN FALSE
  ELSE IF (sw[i] \cap tw[i]) # {} THEN TRUE
  ELSE IntersectsFrom(sw, tw, i + 1)

Intersects(sw, tw) == IntersectsFrom(sw, tw, 1)

\* DifferenceWith that zeroes the words s has beyond t
DifferenceWithZeroTail(sw, tw, same) ==
  IF same THEN Clear(sw)
  ELSE [i \in 1 .. Len(sw) |->
          IF i <= Len(tw) THEN sw[i] \ tw[i] ELSE {}]

\* DifferenceWith; same is the pointer comparison s == t
DifferenceWith(sw, tw, same) ==
  IF same THEN Clear(sw)
  ELSE [i \in 1 .. Len(sw) |->
          IF i <= Len(tw) THEN sw[i] \ tw[i] ELSE sw[i]]

\* a | b for a ^ b
XorAsOr(a, b) == a \cup b

\* a ^ b on words
Xor(a, b) == (a \ b) \cup (b \ a)

\* SymmetricDifference without the append of the words t has beyond s
SymmetricDifferenceNoAppend(sw, tw) ==
  [i \in 1 .. Len(sw) |-> IF i <= Len(tw) THEN Xor(sw[i], tw[i]) ELSE sw[i]]

SymmetricDifference(sw, tw) ==
  [i \in 1 .. (IF Len(tw) > Len(sw) THEN Len(tw) ELSE Len(sw)) |->
     IF i > Len(tw) THEN sw[i]
     ELSE IF i - 1 < Len(sw) THEN Xor(sw[i], tw[i])
     ELSE tw[i]]

\* the word loop of SubsetOf without the skip of the zero words of s
RECURSIVE SubsetOfFromStrict(_, _, _)
SubsetOfFromStrict(sw, tw, i) ==
  IF i > Len(sw) THEN TRUE
  ELSE IF i - 1 >= Len(tw) THEN FALSE
  ELSE IF (sw[i] \ tw[i]) # {} THEN FALSE
  ELSE SubsetOfFromStrict(sw, tw, i + 1)

RECURSIVE SubsetOfFrom(_, _, _)
SubsetOfFrom(sw, tw, i) ==
  IF i > Len(sw) THEN TRUE
  ELSE IF sw[i] = {} THEN SubsetOfFrom(sw, tw, i + 1)
  ELSE IF i - 1 >= Len(tw) THEN FALSE
  ELSE IF (sw[i] \ tw[i]) # {} THEN FALSE
  ELSE SubsetOfFrom(sw, tw, i + 1)

\* SubsetOf as the proper subset
SubsetOfProper(sw, tw) ==
  SubsetOfFrom(sw, tw, 1) /\ IntSetLen(sw) # IntSetLen(tw)

SubsetOf(sw, tw) == SubsetOfFrom(sw, tw, 1)

(***************************************************************************)
(* The set an instance stands for (invariant I1 of the data model): x is   *)
(* an element iff bit x mod wordSize of word x / wordSize is set.          *)
(***************************************************************************)
Elts(ws) == UNION {{wordSize * (i - 1) + b : b \in ws[i]} : i \in 1 .. Len(ws)}

(***************************************************************************)
(* The state: the IntSet instances of a client and their backing arrays.   *)
(***************************************************************************)
VARIABLES
  ref,     \* ref[id]: the backing array of instance id's words, or Nil
  store,   \* store[a]: the words held by backing array a
  p,       \* the client's variable whose address is handed to TakeMin
  last,    \* the most recent call: method, receiver, arguments and result
  log,     \* the calls made on instance "s" since it was empty, in order
  cp,      \* the most recent dst = src.Copy() and who was written since
  m,       \* the map of the reference MapSet driven side by side with "s"
  out      \* the results of the most recent call of the differential test

vars == <<ref, store, p, last, log, cp, m, out>>

\* what the client's calls leave alone: the records kept about them
hist == <<log, cp, m, out>>

\* the instances: the variables of type *IntSet the client holds
Ids == {"s", "t"}
Nil == "nil"

\* s.words of instance id
W(id) == IF ref[id] = Nil THEN <<>> ELSE store[ref[id]]

\* an array no other instance refers to: what make and a growing append of a
\* nil slice return
Fresh(id) ==
  IF \A j \in Ids \ {id} : ref[j] # id THEN id
  ELSE CHOOSE k \in Ids : \A j \in Ids \ {id} : ref[j] # k

\* the arrays after array a lost the reference of instance id: an array
\* without a reference is collected
Collect(st, id, a) ==
  IF a # Nil /\ \A j \in Ids \ {id} : ref[j] # a
  THEN [st EXCEPT ![a] = <<>>] ELSE st

\* the writes of a method to s.words[i] and s.words = append(s.words, ...)
\* that leave the words ws: they go to the instance's backing array, which
\* an append to a nil slice allocates
SetWords(id, ws) ==
  IF ref[id] = Nil
  THEN IF ws = <<>>
       THEN UNCHANGED <<ref, store>>
       ELSE /\ ref' = [ref EXCEPT ![id] = Fresh(id)]
            /\ store' = [store EXCEPT ![Fresh(id)] = ws]
  ELSE /\ store' = [store EXCEPT ![ref[id]] = ws]
       /\ UNCHANGED ref

\* a Clear that zeroes the words in place: for i := range s.words
\* { s.words[i] = 0 }
SetNilZeroed(id) ==
  /\ store' = IF ref[id] = Nil THEN store
              ELSE [store EXCEPT ![ref[id]] = [i \in 1 .. Len(@) |-> {}]]
  /\ UNCHANGED ref

\* s.words = nil
SetNil(id) ==
  /\ ref' = [ref EXCEPT ![id] = Nil]
  /\ store' = Collect(store, id, ref[id])

\* Copy with "words: s.words" for the make and the copy
CopyArrayShared(src, dst) == IF ref[src] = Nil THEN Fresh(dst) ELSE ref[src]

\* the array of the words of the copy: make([]uint, len(s.words))
CopyArray(src, dst) == Fresh(dst)

NoCall ==
  [op |-> "none", recv |-> "s", arg |-> "s", x |-> 0, ok |-> FALSE, n |-> 0]

\* the record of a call: n is len(s.words) of the receiver at its entry
Called(op, recv, arg, x, ok) ==
  [op |-> op, recv |-> recv, arg |-> arg, x |-> x, ok |-> ok,
   n |-> Len(W(recv))]

\* the zero values: "var s, t intset.IntSet[int]" and "var x int"
InitHeap ==
  /\ ref = [id \in Ids |-> Nil]
  /\ store = [id \in Ids |-> <<>>]
  /\ p = 0
  /\ last = NoCall

(***************************************************************************)
(* The calls of a client.                                                  *)
(***************************************************************************)
CallAdd(id, x) ==
  LET r == Add(W(id), x)
  IN  /\ SetWords(id, r.words)
      /\ last' = Called("Add", id, id, x, r.ok)
      /\ UNCHANGED p

CallAddAll(id, xs) ==
  /\ SetWords(id, AddAll(W(id), xs))
  /\ last' = Called("AddAll", id, id, Len(xs), TRUE)
  /\ UNCHANGED p

CallRemove(id, x) ==
  LET r == Remove(W(id), x)
  IN  /\ SetWords(id, r.words)
      /\ last' = Called("Remove", id, id, x, r.ok)
      /\ UNCHANGED p

CallTakeMin(id) ==
  LET r == TakeMin(W(id), p)
  IN  /\ SetWords(id, r.words)
      /\ p' = r.p
      /\ last' = Called("TakeMin", id, id, 0, r.ok)

CallClear(id) ==
  /\ SetNil(id)
  /\ last' = Called("Clear", id, id, 0, TRUE)
  /\ UNCHANGED p

\* dst = src.Copy()
CallCopy(src, dst) ==
  LET a == CopyArray(src, dst)
  IN  /\ ref' = [ref EXCEPT ![dst] = a]
      /\ store' = [(IF a = ref[dst] THEN store
                    ELSE Collect(store, dst, ref[dst])) EXCEPT ![a] = Copy(W(src))]
      /\ last' = Called("Copy", src, dst, 0, TRUE)
      /\ UNCHANGED p

CallUnionWith(id, t) ==
  /\ SetWords(id, UnionWith(W(id), W(t)))
  /\ last' = Called("UnionWith", id, t, 0, TRUE)
  /\ UNCHANGED p

\* an IntersectWith that writes the intersection to the operand
CallIntersectWithOperand(id, t) ==
  /\ SetWords(t, IntersectWith(W(t), W(id)))
  /\ last' = Called("IntersectWith", id, t, 0, TRUE)
  /\ UNCHANGED p

CallIntersectWith(id, t) ==
  /\ SetWords(id, IntersectWith(W(id), W(t)))
  /\ last' = Called("IntersectWith", id, t, 0, TRUE)
  /\ UNCHANGED p

CallDifferenceWith(id, t) ==
  /\ IF id = t THEN SetNil(id)
     ELSE SetWords(id, DifferenceWith(W(id), W(t), FALSE))
  /\ last' = Called("DifferenceWith", id, t, 0, TRUE)
  /\ UNCHANGED p

CallSymmetricDifference(id, t) ==
  /\ SetWords(id, SymmetricDifference(W(id), W(t)))
  /\ last' = Called("SymmetricDifference", id, t, 0, TRUE)
  /\ UNCHANGED p

\* the arguments of AddAll: up to two values
ArgLists == {<<>>} \cup {<<x>> : x \in Vals} \cup {<<x, y>> : x \in Vals, y \in Vals}

NoCopy == [on |-> FALSE, src |-> "s", dst |-> "s", elems |-> {}, touched |-> {}]

HistInit ==
  /\ log = <<>>
  /\ cp = NoCopy
  /\ m = <<>>
  /\ out = <<>>

Init == InitHeap /\ HistInit

Next ==
  \/ \E id \in Ids, x \in Vals : CallAdd(id, x) /\ UNCHANGED hist
  \/ \E id \in Ids, xs \in ArgLists : CallAddAll(id, xs) /\ UNCHANGED hist
  \/ \E id \in Ids, x \in Vals : CallRemove(id, x) /\ UNCHANGED hist
  \/ \E id \in Ids : CallTakeMin(id) /\ UNCHANGED hist
  \/ \E id \in Ids : CallClear(id) /\ UNCHANGED hist
  \/ \E src \in Ids, dst \in Ids : CallCopy(src, dst) /\ UNCHANGED hist
  \/ \E id \in Ids, t \in Ids : CallUnionWith(id, t) /\ UNCHANGED hist
  \/ \E id \in Ids, t \in Ids : CallIntersectWith(id, t) /\ UNCHANGED hist
  \/ \E id \in Ids, t \in Ids : CallDifferenceWith(id, t) /\ UNCHANGED hist
  \/ \E id \in Ids, t \in Ids : CallSymmetricDifference(id, t) /\ UNCHANGED hist

Spec == Init /\ [][Next]_vars

\* in a reachable state no two instances share a backing array
NoSharing ==
  \A i \in Ids, j \in Ids : (i # j /\ ref[i] # Nil) => ref[i] # ref[j]

(***************************************************************************)
(* C2: Add(x) returns true iff Has(x) was false before the call and leaves *)
(* Has(x) true; Remove(x) returns true iff Has(x) was true before the call *)
(* and leaves Has(x) false; both leave Has(y) as it was for every y # x.   *)
(***************************************************************************)
C2_AddRemoveResult ==
  [][\A id \in Ids, x \in Vals :
       /\ (last'.op = "Add" /\ last'.recv = id /\ last'.x = x) =>
            /\ last'.ok = ~Has(W(id), x)
            /\ Has(W(id)', x)
            /\ \A y \in Queries \ {x} : Has(W(id)', y) = Has(W(id), y)
       /\ (last'.op = "Remove" /\ last'.recv = id /\ last'.x = x) =>
            /\ last'.ok = Has(W(id), x)
            /\ ~Has(W(id)', x)
            /\ \A y \in Queries \ {x} : Has(W(id)', y) = Has(W(id), y)
    ]_vars

\* s has been grown with zero words up to x's word by Add(x) (the set held
\* an element of word 0 only), and a later Remove of a value beyond the
\* words of t has returned false
C2_Witness ==
  /\ last.op = "Remove" /\ ~last.ok /\ last.recv = "t"
  /\ wordMask(last.x).w >= Len(W("t"))
  /\ Len(W("s")) = MaxWords /\ Elts(W("s")) = {0, wordSize * (MaxWords - 1) + MaxWords - 1}

\* the least and the greatest element of a non-empty set of integers
Least(E) == CHOOSE a \in E : \A b \in E : a <= b
Greatest(E) == CHOOSE a \in E : \A b \in E : b <= a

(***************************************************************************)
(* C7: TakeMin(p) on a non-empty set stores in *p the value Min() had      *)
(* before the call, removes that element and no other, and returns true;   *)
(* on an empty set (with or without zero words) it returns false and       *)
(* leaves *p and the set as they were.                                     *)
(***************************************************************************)
C7_TakeMinOnce ==
  [][\A id \in Ids :
       (last'.op = "TakeMin" /\ last'.recv = id) =>
          IF Elts(W(id)) # {}
          THEN /\ last'.ok
               /\ p' = Min(W(id))
               /\ p' \in Elts(W(id))
               /\ Elts(W(id)') = Elts(W(id)) \ {p'}
          ELSE /\ ~last'.ok
               /\ p' = p
               /\ W(id)' = W(id)
    ]_vars

\* TakeMin has returned false on a set that still holds words, all zero,
\* and *p still holds the element an earlier TakeMin stored
C7_Witness ==
  /\ last.op = "TakeMin" /\ ~last.ok
  /\ Len(W(last.recv)) = MaxWords
  /\ p = wordSize * (MaxWords - 1) + MaxWords - 1

(***************************************************************************)
(* C8: Min() is the least and Max() the greatest element of a non-empty    *)
(* set, whatever zero words the sequence ends in; on an empty set Min() is *)
(* MaxInt and Max() is MinInt.                                             *)
(***************************************************************************)
C8_MinMax ==
  \A id \in Ids :
    LET E == Elts(W(id))
    IN  IF E = {}
        THEN Min(W(id)) = MaxInt /\ Max(W(id)) = MinInt
        ELSE Min(W(id)) = Least(E) /\ Max(W(id)) = Greatest(E)

\* s.IntersectWith(t) with a t of one word has left s, of MaxWords words,
\* with the element wordSize-1 and a zero last word
C8_Witness ==
  /\ last.op = "IntersectWith" /\ last.recv = "s" /\ last.arg = "t"
  /\ Len(W("t")) = 1 /\ Len(W("s")) = MaxWords /\ W("s")[MaxWords] = {}
  /\ Elts(W("s")) = {wordSize - 1}
  /\ Max(W("s")) = wordSize - 1 /\ Min(W("s")) = wordSize - 1

(***************************************************************************)
(* C9: LowerBound(x) is the least element >= x, and MaxInt when there is   *)
(* none.                                                                   *)
(***************************************************************************)
C9_LowerBound ==
  \A id \in Ids, x \in Queries :
    LET above == {e \in Elts(W(id)) : e >= x}
    IN  LowerBound(W(id), x) = IF above = {} THEN MaxInt ELSE Least(above)

\* s = {0, wordSize-1} and t = {0} plus an element of the last word: in s
\* the answer to 1 lies above bit 1 of the word of 1, in t it lies in a
\* later word, and beyond the words there is none
C9_Witness ==
  /\ Elts(W("s")) = {0, wordSize - 1}
  /\ Elts(W("t")) = {0, wordSize * (MaxWords - 1) + MaxWords - 1}
  /\ LowerBound(W("s"), 1) = wordSize - 1
  /\ LowerBound(W("t"), 1) = wordSize * (MaxWords - 1) + MaxWords - 1
  /\ LowerBound(W("t"), wordSize * MaxWords) = MaxInt
  /\ LowerBound(W("s"), wordSize) = MaxInt

(***************************************************************************)
(* C10: s.UnionWith(t) leaves s with the elements of (old s) \cup t, and   *)
(* with max(len(old s.words), len(t.words)) words, the words t has beyond  *)
(* those of s being copied as they are.                                    *)
(***************************************************************************)
C10_UnionWith ==
  [][\A id \in Ids, t \in Ids :
       (last'.op = "UnionWith" /\ last'.recv = id /\ last'.arg = t) =>
          /\ Elts(W(id)') = Elts(W(id)) \cup Elts(W(t))
          /\ Len(W(id)') = IF Len(W(t)) > Len(W(id)) THEN Len(W(t)) ELSE Len(W(id))
          /\ \A i \in Len(W(id)) + 1 .. Len(W(t)) : W(id)'[i] = W(t)[i]
    ]_vars

\* UnionWith has grown s, which held one word, to the words of t
C10_Witness ==
  /\ last.op = "UnionWith" /\ last.recv = "s" /\ last.arg = "t"
  /\ last.n = 1 /\ Len(W("t")) = MaxWords /\ Len(W("s")) = MaxWords
  /\ Elts(W("t")) = {wordSize * (MaxWords - 1) + MaxWords - 1}
  /\ Elts(W("s")) = {wordSize - 1, wordSize * (MaxWords - 1) + MaxWords - 1}

(***************************************************************************)
(* SpecCopy: a client that copies one instance into the other variable and *)
(* then writes to the instances; cp records the elements at the time of    *)
(* the copy and which of the two instances a call has written to since.    *)
(***************************************************************************)
Touch(id) ==
  IF ~cp.on THEN cp
  ELSE IF {cp.src, cp.dst} \subseteq (cp.touched \cup {id}) THEN NoCopy
  ELSE [cp EXCEPT !.touched = @ \cup {id}]

Copied(src, dst) ==
  [on |-> TRUE, src |-> src, dst |-> dst, elems |-> Elts(W(src)), touched |-> {}]

NextCopy ==
  \/ \E src \in Ids : \E dst \in Ids \ {src} :
       CallCopy(src, dst) /\ cp' = Copied(src, dst) /\ UNCHANGED <<log, m, out>>
  \/ \E id \in Ids, x \in Vals :
       CallAdd(id, x) /\ cp' = Touch(id) /\ UNCHANGED <<log, m, out>>
  \/ \E id \in Ids, x \in Vals :
       CallRemove(id, x) /\ cp' = Touch(id) /\ UNCHANGED <<log, m, out>>
  \/ \E id \in Ids :
       CallTakeMin(id) /\ cp' = Touch(id) /\ UNCHANGED <<log, m, out>>
  \/ \E id \in Ids :
       CallClear(id) /\ cp' = Touch(id) /\ UNCHANGED <<log, m, out>>
  \/ \E id \in Ids, t \in Ids :
       CallUnionWith(id, t) /\ cp' = Touch(id) /\ UNCHANGED <<log, m, out>>
  \/ \E id \in Ids, t \in Ids :
       CallIntersectWith(id, t) /\ cp' = Touch(id) /\ UNCHANGED <<log, m, out>>
  \/ \E id \in Ids, t \in Ids :
       CallDifferenceWith(id, t) /\ cp' = Touch(id) /\ UNCHANGED <<log, m, out>>
  \/ \E id \in Ids, t \in Ids :
       CallSymmetricDifference(id, t) /\ cp' = Touch(id) /\ UNCHANGED <<log, m, out>>

SpecCopy == Init /\ [][NextCopy]_vars

(***************************************************************************)
(* C5: the copy has the elements of the receiver and its own array: after  *)
(* c := s.Copy(), whatever calls write to c only, s keeps its elements,    *)
(* and whatever calls write to s only, c keeps them.                       *)
(***************************************************************************)
C5_CopyIndependent ==
  cp.on =>
    /\ \A id \in {cp.src, cp.dst} \ cp.touched : Elts(W(id)) = cp.elems
    /\ ref[cp.dst] # Nil => ref[cp.dst] # ref[cp.src]

\* after a copy of a set of two elements, calls on the copy only, the last
\* of them SymmetricDifference with the original, have emptied the copy
\* and the original still has its elements
C5_Witness ==
  /\ cp.on /\ cp.touched = {cp.dst} /\ Cardinality(cp.elems) = 2
  /\ last.op = "SymmetricDifference" /\ last.recv = cp.dst /\ last.arg = cp.src
  /\ Elts(W(cp.dst)) = {}
  /\ Elts(W(cp.src)) = cp.elems

(***************************************************************************)
(* SpecSeq: a client that starts from the empty set s and calls Add,       *)
(* Remove and TakeMin on it; log records each call, its argument (for      *)
(* TakeMin the value of *p after it), its result and the elements of s     *)
(* before it.                                                              *)
(***************************************************************************)
Logged(op, x) ==
  Append(log, [op |-> op, x |-> x, ok |-> last'.ok, pre |-> Elts(W("s"))])

NextSeq ==
  \/ \E x \in Vals :
       /\ Len(log) < MaxLog
       /\ CallAdd("s", x)
       /\ log' = Logged("Add", x)
       /\ UNCHANGED <<cp, m, out>>
  \/ \E x \in Vals :
       /\ Len(log) < MaxLog
       /\ CallRemove("s", x)
       /\ log' = Logged("Remove", x)
       /\ UNCHANGED <<cp, m, out>>
  \/ /\ Len(log) < MaxLog
     /\ CallTakeMin("s")
     /\ log' = Logged("TakeMin", p')
     /\ UNCHANGED <<cp, m, out>>

SpecSeq == Init /\ [][NextSeq]_vars

RECURSIVE Ascending(_)
\* the elements of a finite set of integers in ascending order
Ascending(E) ==
  IF E = {} THEN <<>> ELSE <<Least(E)>> \o Ascending(E \ {Least(E)})

\* the value of a decimal digit
DigitVal(c) == CHOOSE d \in 0 .. 9 : Digits[d + 1] = c

RECURSIVE ParseInts(_, _, _)
\* the numbers of a text of decimal numbers separated by single spaces;
\* an empty number reads as -1
ParseInts(cs, cur, acc) ==
  IF cs = <<>> THEN Append(acc, cur)
  ELSE IF Head(cs) = " " THEN ParseInts(Tail(cs), -1, Append(acc, cur))
  ELSE ParseInts(Tail(cs),
                 (IF cur = -1 THEN 0 ELSE cur) * 10 + DigitVal(Head(cs)), acc)

\* the numbers between the braces of a rendered set
ParseSet(str) ==
  IF Len(str) = 2 THEN <<>> ELSE ParseInts(SubSeq(str, 2, Len(str) - 1), -1, <<>>)

\* the calls of the log are all among ops
OnlyCalls(ops) == \A i \in 1 .. Len(log) : log[i].op \in ops

(***************************************************************************)
(* C3: after Add of each element of a sequence S to the empty set, Elems() *)
(* is the distinct values of S in ascending order, and AppendTo and String *)
(* produce that same order, whatever the order of S.                       *)
(***************************************************************************)
C3_ElemsSorted ==
  OnlyCalls({"Add"}) =>
    LET sorted == Ascending({log[i].x : i \in 1 .. Len(log)})
        str == String(W("s"))
    IN  /\ Elems(W("s")) = sorted
        /\ AppendTo(W("s"), <<1>>) = <<1>> \o sorted
        /\ str[1] = "{" /\ str[Len(str)] = "}"
        /\ ParseSet(str) = sorted

\* the elements were added in descending order, one of them twice
C3_Witness ==
  /\ OnlyCalls({"Add"}) /\ Len(log) = 4
  /\ log[1].x > log[2].x /\ log[2].x > log[3].x /\ log[4].x = log[1].x
  /\ Elems(W("s")) = <<log[3].x, log[2].x, log[1].x>>

(***************************************************************************)
(* C4: after Add and Remove calls from the empty set, Len() is the number  *)
(* of elements present, which is the number of Add calls that returned     *)
(* true less the number of Remove calls that returned true; it is not      *)
(* negative, and an Add of an element that is present leaves it as it was. *)
(***************************************************************************)
C4_Len ==
  OnlyCalls({"Add", "Remove"}) =>
    LET grew == {i \in 1 .. Len(log) : log[i].op = "Add" /\ log[i].ok}
        shrank == {i \in 1 .. Len(log) : log[i].op = "Remove" /\ log[i].ok}
    IN  /\ IntSetLen(W("s")) = Cardinality(Elts(W("s")))
        /\ IntSetLen(W("s")) = Cardinality(grew) - Cardinality(shrank)
        /\ IntSetLen(W("s")) >= 0
        /\ (log # <<>> /\ log[Len(log)].op = "Add"
              /\ log[Len(log)].x \in log[Len(log)].pre)
             => IntSetLen(W("s")) = Cardinality(log[Len(log)].pre)

\* two elements of one word were added, one was removed, and then the other
\* was added once more
C4_Witness ==
  /\ OnlyCalls({"Add", "Remove"}) /\ Len(log) = 4
  /\ log[1].op = "Add" /\ log[2].op = "Add" /\ log[3].op = "Remove" /\ log[3].ok
  /\ log[4].op = "Add" /\ ~log[4].ok
  /\ log[3].pre = {0, wordSize - 1}
  /\ IntSetLen(W("s")) = 1

\* the index in log of the first call of the run of TakeMin calls log ends in
DrainStart ==
  LET others == {i \in 1 .. Len(log) : log[i].op # "TakeMin"}
  IN  IF others = {} THEN 1 ELSE Greatest(others) + 1

(***************************************************************************)
(* C6: of TakeMin calls in a row on a set of n elements, the first n       *)
(* return true and store the elements in ascending order, the set is empty *)
(* after the n-th, and every further one returns false.                    *)
(***************************************************************************)
C6_Drain ==
  DrainStart <= Len(log) =>
    LET first == DrainStart
        k == Len(log) - first + 1
        start == Ascending(log[first].pre)
        n == Len(start)
    IN  /\ \A j \in 1 .. k :
             /\ log[first + j - 1].ok = (j <= n)
             /\ j <= n => log[first + j - 1].x = start[j]
        /\ \A j \in 2 .. k : j <= n => log[first + j - 2].x < log[first + j - 1].x
        /\ k >= n => Elts(W("s")) = {} /\ IsEmpty(W("s"))

\* two elements, added in descending order, were taken in ascending order
\* and a third TakeMin has returned false
C6_Witness ==
  /\ Len(log) = 5 /\ DrainStart = 3
  /\ log[1].x > log[2].x
  /\ log[3].ok /\ log[4].ok /\ ~log[5].ok
  /\ log[3].x = log[2].x /\ log[4].x = log[1].x
  /\ Len(W("s")) > 0

(***************************************************************************)
(* The reference implementation of the tests, MapSet                       *)
(* (src/intset_reference_test.go): a Go map[int]bool, here a function from *)
(* its keys to BOOLEAN; a nil map and an empty map are the empty function. *)
(***************************************************************************)
EmptyMap == [x \in {} |-> TRUE]

\* s.m[x]: the value of key x, false for a missing key
MapGet(mm, x) == x \in DOMAIN mm /\ mm[x]

\* s.m[x] = v
MapPut(mm, x, v) == [k \in DOMAIN mm \cup {x} |-> IF k = x THEN v ELSE mm[k]]

\* delete(s.m, x)
MapDelete(mm, x) == [k \in DOMAIN mm \ {x} |-> mm[k]]

\* MapSet.forEach: the keys, sorted by sort.Ints, in call order
MapSetforEach(mm) == Ascending(DOMAIN mm)

MapSetAdd(mm, x) ==
  IF MapGet(mm, x) THEN [m |-> mm, ok |-> FALSE]
  ELSE [m |-> MapPut(mm, x, TRUE), ok |-> TRUE]

RECURSIVE MapSetAddAll(_, _)
MapSetAddAll(mm, xs) ==
  IF xs = <<>> THEN mm ELSE MapSetAddAll(MapSetAdd(mm, Head(xs)).m, Tail(xs))

MapSetLen(mm) == Cardinality(DOMAIN mm)

MapSetIsEmpty(mm) == Cardinality(DOMAIN mm) = 0

MapSetAppendTo(mm, slice) ==
  LET total == Len(slice) + Cardinality(DOMAIN mm)
      calls == MapSetforEach(mm)
  IN  [k \in 1 .. total |->
         IF k <= Len(slice) THEN slice[k] ELSE calls[k - Len(slice)]]

MapSetElems(mm) == MapSetAppendTo(mm, <<>>)

MapSetClear(mm) == EmptyMap

MapSetCopy(mm) ==
  LET calls == MapSetforEach(mm)
  IN  [k \in {calls[i] : i \in 1 .. Len(calls)} |-> TRUE]

MapSetHas(mm, x) == MapGet(mm, x)

RECURSIVE MapSetLowerBoundFrom(_, _, _)
\* the callback of MapSet.LowerBound on the calls of forEach
MapSetLowerBoundFrom(calls, x, min) ==
  IF calls = <<>> THEN min
  ELSE MapSetLowerBoundFrom(Tail(calls), x,
         IF Head(calls) >= x /\ Head(calls) < min THEN Head(calls) ELSE min)

MapSetLowerBound(mm, x) == MapSetLowerBoundFrom(MapSetforEach(mm), x, MaxInt)

MapSetMax(mm) ==
  IF MapSetIsEmpty(mm) THEN MinInt
  ELSE MapSetAppendTo(mm, <<>>)[(MapSetLen(mm) - 1) + 1]

MapSetMin(mm) ==
  IF MapSetIsEmpty(mm) THEN MaxInt ELSE MapSetAppendTo(mm, <<>>)[0 + 1]

MapSetRemove(mm, x) ==
  IF ~MapGet(mm, x) THEN [m |-> mm, ok |-> FALSE]
  ELSE [m |-> MapDelete(mm, x), ok |-> TRUE]

MapSetString(mm) == StringFrom(<<"{">>, MapSetforEach(mm)) \o <<"}">>

MapSetBitString(mm) ==
  IF MapSetIsEmpty(mm) THEN <<"0">>
  ELSE LET n == MapSetMax(mm) + 1
       IN  BitStringFrom([i \in 1 .. n |-> "0"], n, MapSetforEach(mm))

MapSetTakeMin(mm, pp) ==
  IF MapSetIsEmpty(mm) THEN [m |-> mm, p |-> pp, ok |-> FALSE]
  ELSE LET x == MapSetAppendTo(mm, <<>>)[0 + 1]
       IN  [m |-> MapDelete(mm, x), p |-> x, ok |-> TRUE]

\* each key of t is set in s
MapSetUnionWith(mm, t) ==
  [k \in DOMAIN mm \cup DOMAIN t |-> IF k \in DOMAIN t THEN TRUE ELSE mm[k]]

\* each key of s that t does not hold true is deleted
MapSetIntersectWith(mm, t) ==
  [k \in {x \in DOMAIN mm : MapGet(t, x)} |-> mm[k]]

MapSetIntersects(mm, t) == \E x \in DOMAIN mm : MapGet(t, x)

MapSetDifferenceWith(mm, t) ==
  [k \in {x \in DOMAIN mm : ~MapGet(t, x)} |-> mm[k]]

\* the keys of s that t holds are marked false; then each key of t is added
\* to s when s does not have the key, and deleted from s when it has
MapSetSymmetricDifference(mm, t) ==
  LET marked == [k \in DOMAIN mm |-> IF MapGet(t, k) THEN FALSE ELSE mm[k]]
  IN  [k \in (DOMAIN marked \ DOMAIN t) \cup (DOMAIN t \ DOMAIN marked) |->
         IF k \in DOMAIN marked THEN marked[k] ELSE TRUE]

MapSetSubsetOf(mm, t) == \A x \in DOMAIN mm : MapGet(t, x)

MapSetEquals(mm, t) ==
  IF Cardinality(DOMAIN mm) # Cardinality(DOMAIN t) THEN FALSE
  ELSE \A x \in DOMAIN mm : MapGet(t, x)

(***************************************************************************)
(* SpecDiff: the differential test TestIntSetMatchesMapSet                 *)
(* (src/intset_test.go): the same calls are applied to an IntSet, the      *)
(* instance "s", and to a MapSet, m; out holds the setResult of the most   *)
(* recent call on each.                                                    *)
(***************************************************************************)
\* the largest len(c.t) setCall.Generate draws: r.Intn(4)
MaxOperand == 3

\* "for x := range c.t { t.Add(x) }" adds the indices of c.t
OperandArgs(k) == [i \in 1 .. k |-> i - 1]

BinaryOps ==
  {"UnionWith", "IntersectionWith", "Intersects", "DifferenceWith",
   "SymmetricDifference", "SubsetOf", "Equals"}

setResult(v, ok) == [Value |-> v, Ok |-> ok]

\* "return s.String(), true" after a call that left the words w2
Rendered(w2) == [words |-> w2, res |-> setResult(String(w2), TRUE)]

\* "return s.String(), true" after a call that left the map m2
MapRendered(m2) == [m |-> m2, res |-> setResult(MapSetString(m2), TRUE)]

\* setCall.apply on an IntSet with the words ws: the words after the call
\* and its setResult
IntSetApply(c, ws) ==
  CASE c.op = "Add" ->
         LET r == Add(ws, c.x) IN [words |-> r.words, res |-> setResult(c.x, r.ok)]
    [] c.op = "AddAll" ->
         Rendered(AddAll(ws, c.xs))
    [] c.op = "AppendTo" -> [words |-> ws, res |-> setResult(AppendTo(ws, <<>>), TRUE)]
    [] c.op = "Elems" -> [words |-> ws, res |-> setResult(Elems(ws), TRUE)]
    [] c.op = "Clear" -> [words |-> Clear(ws), res |-> setResult("nil", FALSE)]
    [] c.op = "Copy" -> [words |-> ws, res |-> setResult(String(Copy(ws)), TRUE)]
    [] c.op = "Has" -> [words |-> ws, res |-> setResult(c.x, Has(ws, c.x))]
    [] c.op = "IsEmpty" -> [words |-> ws, res |-> setResult("nil", IsEmpty(ws))]
    [] c.op = "Len" -> [words |-> ws, res |-> setResult(IntSetLen(ws), TRUE)]
    [] c.op = "LowerBound" -> [words |-> ws, res |-> setResult(LowerBound(ws, c.x), TRUE)]
    [] c.op = "Max" -> [words |-> ws, res |-> setResult(Max(ws), TRUE)]
    [] c.op = "Min" -> [words |-> ws, res |-> setResult(Min(ws), TRUE)]
    [] c.op = "Remove" ->
         LET r == Remove(ws, c.x) IN [words |-> r.words, res |-> setResult(c.x, r.ok)]
    [] c.op = "String" -> [words |-> ws, res |-> setResult(String(ws), TRUE)]
    [] c.op = "BitString" -> [words |-> ws, res |-> setResult(BitString(ws), TRUE)]
    [] c.op = "TakeMin" ->
         LET r == TakeMin(ws, 0) IN [words |-> r.words, res |-> setResult(r.p, r.ok)]
    [] c.op \in BinaryOps ->
         LET t == AddAll(<<>>, OperandArgs(c.t))
         IN  CASE c.op = "Intersects" ->
                    [words |-> ws, res |-> setResult("nil", Intersects(ws, t))]
               [] c.op = "SubsetOf" ->
                    [words |-> ws, res |-> setResult("nil", SubsetOf(ws, t))]
               [] c.op = "Equals" ->
                    [words |-> ws, res |-> setResult("nil", Equals(ws, t, FALSE))]
               [] OTHER ->
                    Rendered(CASE c.op = "UnionWith" -> UnionWith(ws, t)
                               [] c.op = "IntersectionWith" -> IntersectWith(ws, t)
                               [] c.op = "DifferenceWith" -> DifferenceWith(ws, t, FALSE)
                               [] c.op = "SymmetricDifference" -> SymmetricDifference(ws, t))

\* setCall.apply on a MapSet with the map mm: the map after the call and its
\* setResult
MapSetApply(c, mm) ==
  CASE c.op = "Add" ->
         LET r == MapSetAdd(mm, c.x) IN [m |-> r.m, res |-> setResult(c.x, r.ok)]
    [] c.op = "AddAll" ->
         MapRendered(MapSetAddAll(mm, c.xs))
    [] c.op = "AppendTo" -> [m |-> mm, res |-> setResult(MapSetAppendTo(mm, <<>>), TRUE)]
    [] c.op = "Elems" -> [m |-> mm, res |-> setResult(MapSetElems(mm), TRUE)]
    [] c.op = "Clear" -> [m |-> MapSetClear(mm), res |-> setResult("nil", FALSE)]
    [] c.op = "Copy" -> [m |-> mm, res |-> setResult(MapSetString(MapSetCopy(mm)), TRUE)]
    [] c.op = "Has" -> [m |-> mm, res |-> setResult(c.x, MapSetHas(mm, c.x))]
    [] c.op = "IsEmpty" -> [m |-> mm, res |-> setResult("nil", MapSetIsEmpty(mm))]
    [] c.op = "Len" -> [m |-> mm, res |-> setResult(MapSetLen(mm), TRUE)]
    [] c.op = "LowerBound" -> [m |-> mm, res |-> setResult(MapSetLowerBound(mm, c.x), TRUE)]
    [] c.op = "Max" -> [m |-> mm, res |-> setResult(MapSetMax(mm), TRUE)]
    [] c.op = "Min" -> [m |-> mm, res |-> setResult(MapSetMin(mm), TRUE)]
    [] c.op = "Remove" ->
         LET r == MapSetRemove(mm, c.x) IN [m |-> r.m, res |-> setResult(c.x, r.ok)]
    [] c.op = "String" -> [m |-> mm, res |-> setResult(MapSetString(mm), TRUE)]
    [] c.op = "BitString" -> [m |-> mm, res |-> setResult(MapSetBitString(mm), TRUE)]
    [] c.op = "TakeMin" ->
         LET r == MapSetTakeMin(mm, 0) IN [m |-> r.m, res |-> setResult(r.p, r.ok)]
    [] c.op \in BinaryOps ->
         LET t == MapSetAddAll(EmptyMap, OperandArgs(c.t))
         IN  CASE c.op = "Intersects" ->
                    [m |-> mm, res |-> setResult("nil", MapSetIntersects(mm, t))]
               [] c.op = "SubsetOf" ->
                    [m |-> mm, res |-> setResult("nil", MapSetSubsetOf(mm, t))]
               [] c.op = "Equals" ->
                    [m |-> mm, res |-> setResult("nil", MapSetEquals(mm, t))]
               [] OTHER ->
                    MapRendered(CASE c.op = "UnionWith" -> MapSetUnionWith(mm, t)
                                  [] c.op = "IntersectionWith" -> MapSetIntersectWith(mm, t)
                                  [] c.op = "DifferenceWith" -> MapSetDifferenceWith(mm, t)
                                  [] c.op = "SymmetricDifference" -> MapSetSymmetricDifference(mm, t))

setCall(op, x, xs, t) == [op |-> op, x |-> x, xs |-> xs, t |-> t]

\* one iteration of applyCalls on both sets, r and q being what apply
\* returns on the IntSet and on the MapSet
Applied(c, r, q) ==
  /\ IF c.op = "Clear" THEN SetNil("s") ELSE SetWords("s", r.words)
  /\ m' = q.m
  /\ out' = [is |-> r.res, ms |-> q.res]
  /\ p' = IF c.op = "TakeMin" THEN r.res.Value ELSE p
  /\ last' = Called(c.op, "s", "s", c.x, r.res.Ok)
  /\ UNCHANGED <<log, cp>>

ApplyCall(c) ==
  \E r \in {IntSetApply(c, W("s"))} : \E q \in {MapSetApply(c, m)} : Applied(c, r, q)

InitDiff ==
  /\ InitHeap
  /\ log = <<>>
  /\ cp = NoCopy
  /\ m = EmptyMap
  /\ out = [is |-> setResult("nil", FALSE), ms |-> setResult("nil", FALSE)]

NextDiff ==
  \/ \E op \in {"Add", "Has", "LowerBound", "Remove"}, x \in Vals :
       ApplyCall(setCall(op, x, <<>>, 0))
  \/ \E xs \in ArgLists : ApplyCall(setCall("AddAll", 0, xs, 0))
  \/ \E op \in {"AppendTo", "Elems", "Clear", "Copy", "IsEmpty", "Len", "Max",
                "Min", "String", "BitString", "TakeMin"} :
       ApplyCall(setCall(op, 0, <<>>, 0))
  \/ \E op \in BinaryOps, k \in 0 .. MaxOperand : ApplyCall(setCall(op, 0, <<>>, k))

SpecDiff == InitDiff /\ [][NextDiff]_vars

(***************************************************************************)
(* C1: for every sequence of calls applied from the empty set to an IntSet *)
(* and to a MapSet side by side, each call returns the same value and the  *)
(* same flag on both, and the final ascending lists of elements are equal. *)
(***************************************************************************)
C1_MatchesMapSet ==
  /\ out.is = out.ms
  /\ AppendTo(W("s"), <<>>) = MapSetAppendTo(m, <<>>)

\* SymmetricDifference with the operand {0, 1, 2} has left {1, 2, 31} and a
\* further word, all zero, in the IntSet
C1_Witness ==
  /\ last.op = "SymmetricDifference"
  /\ out.is.Value = <<"{", "1", " ", "2", " ", "3", "1", "}">>
  /\ out.ms.Value = out.is.Value
  /\ Len(W("s")) = MaxWords
  /\ DOMAIN m = {1, 2, wordSize - 1}

(***************************************************************************)
(* The predicates on two sets, as calls of a client: they assign nothing   *)
(* to either operand, and last records the result.                         *)
(***************************************************************************)
CallIntersects(id, t) ==
  /\ last' = Called("Intersects", id, t, 0, Intersects(W(id), W(t)))
  /\ UNCHANGED <<ref, store, p>>

CallSubsetOf(id, t) ==
  /\ last' = Called("SubsetOf", id, t, 0, SubsetOf(W(id), W(t)))
  /\ UNCHANGED <<ref, store, p>>

CallEquals(id, t) ==
  /\ last' = Called("Equals", id, t, 0, Equals(W(id), W(t), id = t))
  /\ UNCHANGED <<ref, store, p>>

(***************************************************************************)
(* SpecAlg: a client that builds two sets with Add and Remove and applies  *)
(* the set algebra to them, each set as receiver and as operand, also      *)
(* both at once.                                                           *)
(***************************************************************************)
NextAlg ==
  \/ \E id \in Ids, x \in Vals : CallAdd(id, x) /\ UNCHANGED hist
  \/ \E id \in Ids, x \in Vals : CallRemove(id, x) /\ UNCHANGED hist
  \/ \E id \in Ids, t \in Ids : CallUnionWith(id, t) /\ UNCHANGED hist
  \/ \E id \in Ids, t \in Ids : CallIntersectWith(id, t) /\ UNCHANGED hist
  \/ \E id \in Ids, t \in Ids : CallDifferenceWith(id, t) /\ UNCHANGED hist
  \/ \E id \in Ids, t \in Ids : CallSymmetricDifference(id, t) /\ UNCHANGED hist
  \/ \E id \in Ids, t \in Ids : CallIntersects(id, t) /\ UNCHANGED hist
  \/ \E id \in Ids, t \in Ids : CallSubsetOf(id, t) /\ UNCHANGED hist
  \/ \E id \in Ids, t \in Ids : CallEquals(id, t) /\ UNCHANGED hist

SpecAlg == Init /\ [][NextAlg]_vars

(***************************************************************************)
(* C11: every IntersectWith step leaves in the receiver exactly the        *)
(* elements it had that are also in the operand; the words the receiver    *)
(* has beyond the operand's word count are zero afterwards, and the        *)
(* receiver's word count is the one it had at entry.                       *)
(***************************************************************************)
C11_IntersectWith ==
  [][\A id \in Ids, t \in Ids :
       (last'.op = "IntersectWith" /\ last'.recv = id /\ last'.arg = t) =>
          /\ Elts(W(id)') = Elts(W(id)) \cap Elts(W(t))
          /\ Len(W(id)') = Len(W(id))
          /\ last'.n = Len(W(id))
          /\ \A i \in Len(W(t)) + 1 .. Len(W(id)) : W(id)'[i] = {}
          /\ \A x \in Elts(W(id)) :
               x \div wordSize >= Len(W(t)) => ~Has(W(id)', x)
    ]_vars

\* after s.IntersectWith(t) with t of one word and s of MaxWords words: s
\* still has all its words, the last one zero, and an element is left
C11_Witness ==
  /\ last.op = "IntersectWith" /\ last.recv = "s" /\ last.arg = "t"
  /\ Len(W("t")) = 1
  /\ last.n = MaxWords /\ Len(W("s")) = MaxWords
  /\ W("s")[MaxWords] = {}
  /\ Elts(W("s")) # {}

(***************************************************************************)
(* C12: every DifferenceWith step on two distinct instances leaves in the  *)
(* receiver exactly the elements it had that are not in the operand; the   *)
(* words the receiver has beyond the operand's word count are untouched,   *)
(* and the words the operand has beyond the receiver's add no word.        *)
(***************************************************************************)
C12_DifferenceWith ==
  [][\A id \in Ids, t \in Ids :
       (last'.op = "DifferenceWith" /\ last'.recv = id /\ last'.arg = t
          /\ id # t) =>
          /\ Elts(W(id)') = Elts(W(id)) \ Elts(W(t))
          /\ \A i \in Len(W(t)) + 1 .. Len(W(id)) : W(id)'[i] = W(id)[i]
          /\ Len(W(id)') = Len(W(id))
    ]_vars

\* after s.DifferenceWith(t) with t of one word and s of MaxWords words: the
\* last word of s is still there with its element
C12_Witness ==
  /\ last.op = "DifferenceWith" /\ last.recv = "s" /\ last.arg = "t"
  /\ Len(W("t")) = 1 /\ W("t")[1] # {}
  /\ last.n = MaxWords /\ Len(W("s")) = MaxWords
  /\ W("s")[MaxWords] # {}

(***************************************************************************)
(* C13: every SymmetricDifference step leaves in the receiver exactly the  *)
(* elements that were in one of the two sets and not in the other; these   *)
(* are the elements of sc after sc := s.Copy(); sc.DifferenceWith(t);      *)
(* t.DifferenceWith(s); sc.UnionWith(t) run on fresh copies of the two     *)
(* sets; the words the operand has beyond the receiver's word count are    *)
(* appended to the receiver as they are.                                   *)
(***************************************************************************)
C13_SymmetricDifference ==
  [][\A id \in Ids, t \in Ids :
       (last'.op = "SymmetricDifference" /\ last'.recv = id /\ last'.arg = t) =>
          /\ Elts(W(id)') = (Elts(W(id)) \ Elts(W(t)))
                              \cup (Elts(W(t)) \ Elts(W(id)))
          /\ Elts(W(id)') =
               Elts(UnionWith(DifferenceWith(Copy(W(id)), Copy(W(t)), FALSE),
                              DifferenceWith(Copy(W(t)), Copy(W(id)), FALSE)))
          /\ \A i \in Len(W(id)) + 1 .. Len(W(t)) : W(id)'[i] = W(t)[i]
          /\ Len(W(id)') >= Len(W(t))
    ]_vars

\* after s.SymmetricDifference(t) with s of one word at entry and t of
\* MaxWords words, the last one non-zero: s has t's last word, and the two
\* sets had an element in common, which s has lost
C13_Witness ==
  /\ last.op = "SymmetricDifference" /\ last.recv = "s" /\ last.arg = "t"
  /\ last.n = 1
  /\ Len(W("t")) = MaxWords /\ W("t")[MaxWords] # {}
  /\ Len(W("s")) = MaxWords /\ W("s")[MaxWords] = W("t")[MaxWords]
  /\ \E x \in Elts(W("t")) : ~Has(W("s"), x)

(***************************************************************************)
(* C14: for any two sets A and B, whatever their word counts,              *)
(* A.Intersects(B) is true exactly when a copy of A is not empty after     *)
(* IntersectWith(B), that is when the two sets have an element in common;  *)
(* a call of Intersects returns that value.                                *)
(***************************************************************************)
C14_Intersects ==
  /\ \A a \in Ids, b \in Ids :
       /\ Intersects(W(a), W(b)) = ~IsEmpty(IntersectWith(Copy(W(a)), W(b)))
       /\ Intersects(W(a), W(b)) = (Elts(W(a)) \cap Elts(W(b)) # {})
  /\ last.op = "Intersects" =>
       last.ok = ~IsEmpty(IntersectWith(Copy(W(last.recv)), W(last.arg)))

\* s.Intersects(t) has returned true with s of MaxWords words, the last one
\* non-zero, and t of one word
C14_Witness ==
  /\ last.op = "Intersects" /\ last.recv = "s" /\ last.arg = "t" /\ last.ok
  /\ Len(W("s")) = MaxWords /\ W("s")[MaxWords] # {}
  /\ Len(W("t")) = 1

C16_Equals ==
  /\ \A a \in Ids, b \in Ids :
       /\ Equals(W(a), W(b), a = b)
            = (SubsetOf(W(a), W(b)) /\ SubsetOf(W(b), W(a)))
       /\ Equals(W(a), W(b), a = b) = (Elts(W(a)) = Elts(W(b)))
       /\ Equals(W(a), W(b), a = b) = Equals(W(b), W(a), b = a)
  /\ \A a \in Ids : Equals(W(a), W(a), TRUE)
  /\ last.op = "Equals" =>
       /\ last.ok = (Elts(W(last.recv)) = Elts(W(last.arg)))
       /\ last.recv = last.arg => last.ok

\* s.Equals(t) has returned true with s non-empty, of MaxWords words, the
\* last one zero, and t of one word
C16_Witness ==
  /\ last.op = "Equals" /\ last.recv = "s" /\ last.arg = "t" /\ last.ok
  /\ Len(W("s")) = MaxWords /\ W("s")[MaxWords] = {}
  /\ Elts(W("s")) # {}
  /\ Len(W("t")) = 1

\* bs reads as the bit string of the set in ws
BitStringOf(ws, bs) ==
  IF Elts(ws) = {} THEN bs = <<"0">>
  ELSE /\ Len(bs) = Max(ws) + 1
       /\ \A k \in 1 .. Len(bs) : bs[k] \in {"0", "1"}
       /\ \A x \in 0 .. Max(ws) : (bs[Max(ws) - x + 1] = "1") = Has(ws, x)
       /\ bs[1] = "1"

(***************************************************************************)
(* C17: the BitString of a non-empty set has Max()+1 characters, each '0'  *)
(* or '1'; the character at position Max()-x, counted from 0 at the left,  *)
(* is '1' exactly when x is in the set, so the leftmost one is '1'.  The   *)
(* BitString of an empty set, with or without zero words, is "0".          *)
(***************************************************************************)
C17_BitString ==
  \A id \in Ids : BitStringOf(W(id), BitString(W(id)))

\* s holds 0 and a value beyond its first word; t is empty and has words
C17_Witness ==
  /\ Has(W("s"), 0) /\ Max(W("s")) > wordSize
  /\ Len(W("s")) = MaxWords
  /\ Elts(W("t")) = {} /\ Len(W("t")) > 0

(***************************************************************************)
(* C18: after every Clear step the receiver is empty (Len 0, IsEmpty, Has  *)
(* false for every value) and holds no words, however many it had; an Add  *)
(* of x that follows on the same receiver returns true and leaves exactly  *)
(* {x} in exactly floor(x/wordSize)+1 words.                               *)
(***************************************************************************)
C18_Clear ==
  [][\A id \in Ids :
       /\ (last'.op = "Clear" /\ last'.recv = id) =>
             /\ last'.n = Len(W(id))
             /\ W(id)' = <<>>
             /\ IntSetLen(W(id)') = 0
             /\ IsEmpty(W(id)')
             /\ \A q \in Queries : ~Has(W(id)', q)
             /\ \A x \in Vals :
                  /\ Elts(Add(W(id)', x).words) = {x}
                  /\ Len(Add(W(id)', x).words) = (x \div wordSize) + 1
       /\ (/\ last.op = "Clear" /\ last.recv = id
           /\ last'.op = "Add" /\ last'.recv = id) =>
             /\ last'.ok
             /\ Elts(W(id)') = {last'.x}
             /\ Len(W(id)') = (last'.x \div wordSize) + 1
    ]_vars

\* s.Clear() has run on a set of MaxWords words, and s has no words
C18_Witness ==
  /\ last.op = "Clear" /\ last.recv = "s" /\ last.n = MaxWords
  /\ W("s") = <<>>
  /\ ref["s"] = Nil

\* the operations that take a second set, and those of them that only answer
SetOps == {"UnionWith", "IntersectWith", "DifferenceWith",
           "SymmetricDifference", "Intersects", "SubsetOf", "Equals"}

SetPredicates == {"Intersects", "SubsetOf", "Equals"}

(***************************************************************************)
(* C19: a step s.op(t) of UnionWith, IntersectWith, DifferenceWith,        *)
(* SymmetricDifference, Intersects, SubsetOf or Equals on two distinct     *)
(* instances leaves the operand's words, their count included, as they     *)
(* were; Intersects, SubsetOf and Equals leave the receiver's words as     *)
(* they were too.                                                          *)
(***************************************************************************)
C19_OperandUnchanged ==
  [][\A id \in Ids, t \in Ids :
       (last'.op \in SetOps /\ last'.recv = id /\ last'.arg = t /\ id # t) =>
          /\ W(t)' = W(t)
          /\ ref'[t] = ref[t]
          /\ last'.op \in SetPredicates =>
               W(id)' = W(id) /\ ref'[id] = ref[id]
    ]_vars

\* after s.IntersectWith(t), t has MaxWords words with an element in the
\* last one, and elements that s has not
C19_Witness ==
  /\ last.op = "IntersectWith" /\ last.recv = "s" /\ last.arg = "t"
  /\ Len(W("t")) = MaxWords /\ W("t")[MaxWords] # {}
  /\ Elts(W("s")) # Elts(W("t"))
  /\ Elts(W("s")) # {}

(***************************************************************************)
(* C20: with the receiver itself as operand, a step of s.UnionWith(s) or   *)
(* s.IntersectWith(s) leaves the elements of s as they were, a step of     *)
(* s.DifferenceWith(s) or s.SymmetricDifference(s) leaves s empty,         *)
(* s.Equals(s) and s.SubsetOf(s) return true, and s.Intersects(s) returns  *)
(* true exactly when s is not empty.                                       *)
(***************************************************************************)
C20_SelfOperand ==
  [][\A id \in Ids :
       (last'.op \in SetOps /\ last'.recv = id /\ last'.arg = id) =>
          /\ last'.op \in {"UnionWith", "IntersectWith"} =>
               Elts(W(id)') = Elts(W(id))
          /\ last'.op \in {"DifferenceWith", "SymmetricDifference"} =>
               /\ Elts(W(id)') = {}
               /\ IsEmpty(W(id)')
          /\ last'.op \in {"Equals", "SubsetOf"} => last'.ok
          /\ last'.op = "Intersects" => last'.ok = (Elts(W(id)) # {})
    ]_vars

\* s.SymmetricDifference(s) has run on a set of MaxWords words: s is empty
\* and has its words
C20_Witness ==
  /\ last.op = "SymmetricDifference" /\ last.recv = "s" /\ last.arg = "s"
  /\ last.n = MaxWords /\ Len(W("s")) = MaxWords
  /\ Elts(W("s")) = {}

\* the operations that change a set, Clear apart
Mutators == {"Add", "AddAll", "Remove", "TakeMin", "UnionWith",
             "IntersectWith", "DifferenceWith", "SymmetricDifference"}

(***************************************************************************)
(* C21 as stated: after every step of Add, AddAll, Remove, TakeMin,        *)
(* UnionWith, IntersectWith, DifferenceWith or SymmetricDifference, with   *)
(* a distinct instance or the receiver itself as operand, the receiver     *)
(* has at least as many words as before, and exactly as many after Remove  *)
(* and TakeMin.  s.DifferenceWith(s) on a set that has words refutes it:   *)
(* that call is s.Clear().                                                 *)
(***************************************************************************)
C21_NeverShrinksAnyOperand ==
  [][\A id \in Ids :
       (last'.op \in Mutators /\ last'.recv = id) =>
          /\ Len(W(id)') >= Len(W(id))
          /\ last'.op \in {"Remove", "TakeMin"} => Len(W(id)') = Len(W(id))
    ]_vars

(***************************************************************************)
(* C21, amended: after every step of Add, AddAll, Remove, TakeMin,         *)
(* UnionWith, IntersectWith or SymmetricDifference with any operand, and   *)
(* of DifferenceWith with a distinct instance as operand, the receiver     *)
(* has at least as many words as before, and exactly as many after Remove  *)
(* and TakeMin; s.DifferenceWith(s) leaves s without words, as Clear does. *)
(***************************************************************************)
C21_NeverShrinks ==
  [][\A id \in Ids :
       (last'.op \in Mutators /\ last'.recv = id) =>
          IF last'.op = "DifferenceWith" /\ last'.arg = id
          THEN W(id)' = <<>>
          ELSE /\ Len(W(id)') >= Len(W(id))
               /\ last'.op \in {"Remove", "TakeMin"} =>
                    Len(W(id)') = Len(W(id))
    ]_vars

\* s.TakeMin() has taken the last element of a set of MaxWords words: s is
\* empty and has its MaxWords words
C21_Witness ==
  /\ last.op = "TakeMin" /\ last.recv = "s" /\ last.ok
  /\ last.n = MaxWords /\ Len(W("s")) = MaxWords
  /\ Elts(W("s")) = {}
  /\ p >= wordSize * (MaxWords - 1)

\* the word sequences a third set can have: up to MaxWords words over the
\* bits of Vals, zero words at the end included
ThirdSets ==
  UNION {{ws \in [1 .. n -> SUBSET {x % wordSize : x \in Vals}] :
            \A i \in 1 .. n :
               \A b \in ws[i] : wordSize * (i - 1) + b \in Vals} :
         n \in 0 .. MaxWords}

\* every query gives the same on the word sequences a and b, every predicate
\* against a third set gives the same, in either role, and every mutating
\* operation leaves the same elements in both and returns the same
SameResults(a, b) ==
  /\ \A x \in Queries :
       /\ Has(a, x) = Has(b, x)
       /\ LowerBound(a, x) = LowerBound(b, x)
  /\ IntSetLen(a) = IntSetLen(b)
  /\ IsEmpty(a) = IsEmpty(b)
  /\ Min(a) = Min(b)
  /\ Max(a) = Max(b)
  /\ Elems(a) = Elems(b)
  /\ String(a) = String(b)
  /\ BitString(a) = BitString(b)
  /\ \A c \in ThirdSets :
       /\ Intersects(a, c) = Intersects(b, c)
       /\ Intersects(c, a) = Intersects(c, b)
       /\ SubsetOf(a, c) = SubsetOf(b, c)
       /\ SubsetOf(c, a) = SubsetOf(c, b)
       /\ Equals(a, c, FALSE) = Equals(b, c, FALSE)
       /\ Equals(c, a, FALSE) = Equals(c, b, FALSE)
       /\ Elts(UnionWith(a, c)) = Elts(UnionWith(b, c))
       /\ Elts(IntersectWith(a, c)) = Elts(IntersectWith(b, c))
       /\ Elts(DifferenceWith(a, c, FALSE)) = Elts(DifferenceWith(b, c, FALSE))
       /\ Elts(SymmetricDifference(a, c)) = Elts(SymmetricDifference(b, c))
       /\ Elts(UnionWith(c, a)) = Elts(UnionWith(c, b))
       /\ Elts(IntersectWith(c, a)) = Elts(IntersectWith(c, b))
       /\ Elts(DifferenceWith(c, a, FALSE)) = Elts(DifferenceWith(c, b, FALSE))
       /\ Elts(SymmetricDifference(c, a)) = Elts(SymmetricDifference(c, b))
  /\ Elts(UnionWith(a, a)) = Elts(UnionWith(b, b))
  /\ Elts(IntersectWith(a, a)) = Elts(IntersectWith(b, b))
  /\ Elts(DifferenceWith(a, a, TRUE)) = Elts(DifferenceWith(b, b, TRUE))
  /\ Elts(SymmetricDifference(a, a)) = Elts(SymmetricDifference(b, b))
  /\ \A x \in Vals :
       /\ Add(a, x).ok = Add(b, x).ok
       /\ Elts(Add(a, x).words) = Elts(Add(b, x).words)
       /\ Remove(a, x).ok = Remove(b, x).ok
       /\ Elts(Remove(a, x).words) = Elts(Remove(b, x).words)
  /\ \A xs \in ArgLists : Elts(AddAll(a, xs)) = Elts(AddAll(b, xs))
  /\ TakeMin(a, p).ok = TakeMin(b, p).ok
  /\ TakeMin(a, p).p = TakeMin(b, p).p
  /\ Elts(TakeMin(a, p).words) = Elts(TakeMin(b, p).words)
  /\ Elts(Clear(a)) = Elts(Clear(b))
  /\ Elts(Copy(a)) = Elts(Copy(b))

(***************************************************************************)
(* C22: two sets with the same elements and different word counts give     *)
(* the same results: Has, Len, IsEmpty, Min, Max, LowerBound, Elems,       *)
(* String and BitString are equal on them, Intersects, SubsetOf and        *)
(* Equals against any third set are equal, and the same mutating           *)
(* operation leaves the same elements in both.                             *)
(***************************************************************************)
C22_WordCountUnobservable ==
  \A a \in Ids, b \in Ids :
     (Elts(W(a)) = Elts(W(b)) /\ Len(W(a)) # Len(W(b))) =>
        SameResults(W(a), W(b))

\* a Remove on s has left s and t with the same elements, an element in
\* word 0, s in MaxWords words and t in one
C22_Witness ==
  /\ last.op = "Remove" /\ last.recv = "s" /\ last.ok
  /\ Elts(W("s")) = Elts(W("t")) /\ Elts(W("s")) # {}
  /\ Len(W("s")) = MaxWords /\ Len(W("t")) = 1

====
